---- MODULE Spec2Model ----
(***************************************************************************)
(* Rainfall dashboard: the temporal aggregation of a gridded rainfall      *)
(* field (process_data, in its two variants src/Rainfalldata.py and        *)
(* src/main.py) and the choice of the boundary file to read                *)
(* (load_geospatial_data, src/Rainfalldata.py).                            *)
(*                                                                         *)
(* A gridded field is an xarray Dataset: a set of coordinate (axis) names, *)
(* an index (coordinate values) per non-spatial axis, a set of variable    *)
(* names, and the values of the rainfall variable, laid along one          *)
(* non-spatial axis (vdim) and the two spatial axes.  The spatial grid is  *)
(* flattened to NumCells cells.  A value is <<>> (NaN, missing) or an      *)
(* exact rational <<num, den>> in lowest terms.                            *)
(***************************************************************************)
EXTENDS Integers, Sequences, FiniteSets, TLC

\* Bounds of the model.
MaxDate == 3      \* calendar dates are 1..MaxDate
MaxRain == 2      \* a present rainfall value is 0..MaxRain
NumCells == 1     \* spatial cells of the flattened grid
MaxFiles == 3     \* uploaded boundary companion files

VARIABLES data, call, outcome, steps, printed, first, shapefiles, geo

vars == <<data, call, outcome, steps, printed, first, shapefiles, geo>>

----------------------------------------------------------------------------
\* Values

NaN == <<>>

RECURSIVE Gcd(_, _)
Gcd(a, b) == IF b = 0 THEN a ELSE Gcd(b, a % b)

\* The rational n/d (d > 0) in lowest terms.
Ratio(n, d) == LET g == Gcd(n, d) IN <<n \div g, d \div g>>

Num(n) == <<n, 1>>

Present(col) == {i \in DOMAIN col : col[i] # NaN}

RECURSIVE SumOver(_, _)
SumOver(col, S) ==
    IF S = {} THEN 0
    ELSE LET i == CHOOSE x \in S : TRUE IN col[i][1] + SumOver(col, S \ {i})

\* numpy nansum of a column of a field's (integer-valued) input: NaN counts
\* as zero, so the sum of no value, or of NaN only, is 0.
NanSum(col) == Num(SumOver(col, Present(col)))

\* numpy nanmean: the mean of the present values; NaN when there is none.
NanMean(col) ==
    IF Present(col) = {} THEN NaN
    ELSE Ratio(SumOver(col, Present(col)), Cardinality(Present(col)))

----------------------------------------------------------------------------
\* Gridded fields

Spatial == {"lat", "lon"}
NonSpatial == {"time", "TIME", "day"}
Dates == 1..MaxDate
Cells == 1..NumCells
CellValues == {NaN} \cup {Num(n) : n \in 0..MaxRain}
Rows == [Cells -> CellValues]

RECURSIVE SortedSeq(_)
SortedSeq(S) ==
    IF S = {} THEN <<>>
    ELSE LET m == CHOOSE x \in S : \A y \in S : x <= y
         IN <<m>> \o SortedSeq(S \ {m})

MkField(ax, vd, vs, T, vals) ==
    [coords |-> ax \cup Spatial,
     vars   |-> vs,
     vdim   |-> vd,
     index  |-> [a \in ax |-> SortedSeq(T)],
     vals   |-> vals]

\* The values of cell c along the variable's time-like axis.
Column(d, c) == [i \in DOMAIN d.vals |-> d.vals[i][c]]

----------------------------------------------------------------------------
\* Outcomes of a request

NoCall == [fn |-> "none", start |-> 0, end |-> 0, calc |-> "none"]

NoOutcome == [kind |-> "none", exc |-> "none", error |-> "none",
              detail |-> {}, cells |-> <<>>]

NoFirst == [call |-> NoCall, outcome |-> NoOutcome, between |-> FALSE]

NoSteps == [resolved |-> "none", sliced |-> "none", reduced |-> "none"]

Returned(cells) == [kind |-> "field", exc |-> "none", error |-> "none",
                    detail |-> {}, cells |-> cells]

Raised(exc, error, detail) == [kind |-> "error", exc |-> exc, error |-> error,
                               detail |-> detail, cells |-> <<>>]

----------------------------------------------------------------------------
\* xarray operations used by process_data

\* Dataset.sel(dim=slice(lo, hi)) on a sorted index: pandas locates the
\* bounds by binary search (left for lo, right for hi), so the labels kept
\* are those with lo <= label <= hi, none when lo > hi.  Only the index of
\* dim, and the variables laid along dim, are cut.  A name that is no
\* coordinate of the dataset makes sel raise.  The result is a new dataset.
SliceLeft(idx, lo) == Cardinality({i \in DOMAIN idx : idx[i] < lo})
SliceRight(idx, hi) == Cardinality({i \in DOMAIN idx : idx[i] <= hi})

Sel(d, dim, lo, hi) ==
    IF dim \notin d.coords \/ dim \notin DOMAIN d.index
    THEN [ok |-> FALSE, field |-> d]
    ELSE LET a == SliceLeft(d.index[dim], lo) + 1
             b == SliceRight(d.index[dim], hi)
         IN [ok |-> TRUE,
             field |-> [d EXCEPT !.index[dim] = SubSeq(@, a, b),
                                 !.vals = IF dim = d.vdim
                                          THEN SubSeq(@, a, b) ELSE @]]

\* A lookup that would take a name differing only in case.
UpperCase(name) == IF name = "rainfall" THEN "RAINFALL" ELSE name
HasVarIgnoreCase(d, name) == UpperCase(name) \in {UpperCase(v) : v \in d.vars}

\* data[name]: the variable of exactly that name, else KeyError.
HasVar(d, name) == name \in d.vars

\* DataArray.sum(dim=dim) / .mean(dim=dim), skipna by default: per cell over
\* the steps of the (sliced) variable; a dim the variable is not laid along
\* makes the reduction raise.
SumDim(d, dim) ==
    IF dim # d.vdim THEN Raised("ValueError", "ReduceDimNotFound", {dim})
    ELSE Returned([c \in Cells |-> NanSum(Column(d, c))])

MeanDim(d, dim) ==
    IF dim # d.vdim THEN Raised("ValueError", "ReduceDimNotFound", {dim})
    ELSE Returned([c \in Cells |-> NanMean(Column(d, c))])

----------------------------------------------------------------------------
\* src/Rainfalldata.py process_data(data, start_date, end_date, calc_type)

Modes == {"Cumulative", "Average"}
CalcTypes == Modes \cup {"Median"}

\* Line 55: 'time' if present, else 'TIME'.
TimeCoord(d) == IF "time" \in d.coords THEN "time" ELSE "TIME"

\* A branch on calc_type that would take any value but Cumulative as Average.
ReduceDefaultAverage(d, calc, dim) ==
    IF ~HasVar(d, "RAINFALL")
    THEN Raised("KeyError", "VariableNotFound", {"RAINFALL"})
    ELSE IF calc = "Cumulative" THEN SumDim(d, dim) ELSE MeanDim(d, dim)

\* Lines 63-68: the branch on calc_type; data['RAINFALL'] is evaluated inside
\* the two reducing branches only.
Reduce(d, calc, dim) ==
    IF calc = "Cumulative" THEN
        IF HasVar(d, "RAINFALL") THEN SumDim(d, dim)
        ELSE Raised("KeyError", "VariableNotFound", {"RAINFALL"})
    ELSE IF calc = "Average" THEN
        IF HasVar(d, "RAINFALL") THEN MeanDim(d, dim)
        ELSE Raised("KeyError", "VariableNotFound", {"RAINFALL"})
    ELSE Raised("ValueError", "UnsupportedMode", {})

\* Lines 53-74.  out: what the call returns or raises; steps: the value of
\* time_coord, the name the slice was asked along, the name the reduction
\* was asked along; local: the function's own binding of data at its end.
\* The result of sum/mean is always a DataArray (lines 71-74 never raise).
ProcessDataRainfall(d, start, end, calc) ==
    LET tc == TimeCoord(d) IN
    IF tc \notin d.coords
    THEN [out |-> Raised("ValueError", "CoordinateNotFound", {tc}),
          steps |-> [resolved |-> tc, sliced |-> "none", reduced |-> "none"],
          local |-> d]
    ELSE LET sl == Sel(d, "TIME", start, end) IN
         IF ~sl.ok
         THEN [out |-> Raised("KeyError", "InvalidDimension", {"TIME"}),
               steps |-> [resolved |-> tc, sliced |-> "TIME", reduced |-> "none"],
               local |-> d]
         ELSE [out |-> Reduce(sl.field, calc, tc),
               steps |-> [resolved |-> tc, sliced |-> "TIME",
                          reduced |-> IF calc \in Modes /\ HasVar(sl.field, "RAINFALL")
                                      THEN tc ELSE "none"],
               local |-> sl.field]

----------------------------------------------------------------------------
\* src/main.py process_data(data, start_date, end_date)

\* Lines 23-43.  pd.to_datetime turns each date into the timestamp of its
\* midnight, which is how the daily axis is stamped: dates stay comparable
\* to the index as they are.  printed: the lines written to standard output.
ProcessDataMain(d, start, end) ==
    LET line1 == [text |-> "Data Coordinates:", coords |-> d.coords]
        line2 == [text |-> "Available coordinates:", coords |-> d.coords]
    IN
    IF "time" \notin d.coords
    THEN [out |-> Raised("ValueError", "CoordinateNotFound", {"time"}),
          steps |-> NoSteps,
          local |-> d,
          printed |-> <<line1, line2>>]
    ELSE LET sl == Sel(d, "time", start, end) IN
         [out |-> IF ~sl.ok THEN Raised("KeyError", "InvalidDimension", {"time"})
                  ELSE IF ~HasVar(sl.field, "rainfall")
                  THEN Raised("KeyError", "VariableNotFound", {"rainfall"})
                  ELSE SumDim(sl.field, "time"),
          steps |-> [resolved |-> "time", sliced |-> "time",
                     reduced |-> IF sl.ok /\ HasVar(sl.field, "rainfall")
                                 THEN "time" ELSE "none"],
          local |-> IF sl.ok THEN sl.field ELSE d,
          printed |-> <<line1>>]

\* A slice that would be written into the caller's dataset.
CallerDataInPlace(d, local) == local

\* `data = data.sel(...)` rebinds the function's parameter to the new
\* dataset sel returns; the caller's dataset is the one it passed in.
CallerData(d, local) == d

----------------------------------------------------------------------------
\* src/Rainfalldata.py load_geospatial_data(shapefile_files)

Extensions == {"shp", "shx", "dbf", "prj"}

NoGeo == [kind |-> "none", path |-> "none"]

\* Lines 28-36: the loop that picks the path to read.  files is the upload
\* order, each file named by its extension.  "" is Python's None.
RECURSIVE PickPath(_, _)
PickPath(files, i) ==
    IF i > Len(files) THEN ""
    ELSE IF files[i] = "shp" THEN files[i]
    ELSE IF files[i] \in {"shx", "dbf"} THEN files[1]
    ELSE PickPath(files, i + 1)

\* Lines 17-50: ValueError when no path was picked, else the picked file is
\* handed to gpd.read_file.
LoadGeospatialData(files) ==
    LET path == PickPath(files, 1) IN
    IF path = "" THEN [kind |-> "error", path |-> "none"]
    ELSE [kind |-> "read", path |-> path]

----------------------------------------------------------------------------
\* The state machine

AxisSets == SUBSET NonSpatial \ {{}}
VarSets == SUBSET {"RAINFALL", "rainfall"} \ {{}}

\* Any field of the bounded family, nothing requested yet.
Init ==
    /\ \E ax \in AxisSets : \E vd \in ax : \E vs \in VarSets :
       \E T \in SUBSET Dates \ {{}} :
       \E vals \in [1..Cardinality(T) -> Rows] :
           data = MkField(ax, vd, vs, T, vals)
    /\ call = NoCall
    /\ outcome = NoOutcome
    /\ steps = NoSteps
    /\ printed = <<>>
    /\ first = NoFirst
    /\ shapefiles = <<"shp">>
    /\ geo = NoGeo

\* The kept request, marked once a different request has run after it.
Noted(c) ==
    IF first.call # NoCall /\ c # first.call
    THEN [first EXCEPT !.between = TRUE] ELSE first

\* One aggregation request to Rainfalldata.process_data.
RainfallRequest ==
    \E start \in Dates, end \in Dates, calc \in CalcTypes :
        LET r == ProcessDataRainfall(data, start, end, calc) IN
        /\ call' = [fn |-> "Rainfalldata", start |-> start, end |-> end, calc |-> calc]
        /\ outcome' = r.out
        /\ steps' = r.steps
        /\ data' = CallerData(data, r.local)
        /\ printed' = <<>>
        /\ first' = Noted(call')
        /\ UNCHANGED <<shapefiles, geo>>

\* One aggregation request to main.process_data (always cumulative).
MainRequest ==
    \E start \in Dates, end \in Dates :
        LET r == ProcessDataMain(data, start, end) IN
        /\ call' = [fn |-> "main", start |-> start, end |-> end, calc |-> "Cumulative"]
        /\ outcome' = r.out
        /\ steps' = r.steps
        /\ data' = CallerData(data, r.local)
        /\ printed' = r.printed
        /\ first' = Noted(call')
        /\ UNCHANGED <<shapefiles, geo>>

Next == RainfallRequest \/ MainRequest

Spec == Init /\ [][Next]_vars

----------------------------------------------------------------------------
\* Sequences of requests on one field, with one earlier request and its
\* outcome kept for comparison.

SeqAxisSets == (SUBSET {"time", "TIME"} \ {{}}) \cup {{"day"}}

\* A field with every date on its axis; values differ from step to step and
\* some are missing.
RampVals ==
    [i \in Dates |-> [c \in Cells |->
        IF (i + c) % 3 = 0 THEN NaN ELSE Num((i + c) % (MaxRain + 1))]]

InitSeq ==
    /\ \E ax \in SeqAxisSets : \E vd \in ax : \E vs \in VarSets :
           data = MkField(ax, vd, vs, Dates, RampVals)
    /\ call = NoCall
    /\ outcome = NoOutcome
    /\ steps = NoSteps
    /\ printed = <<>>
    /\ first = NoFirst
    /\ shapefiles = <<"shp">>
    /\ geo = NoGeo

\* The caller keeps the request just made and what it gave.
Remember ==
    /\ call # NoCall
    /\ first.call = NoCall
    /\ first' = [call |-> call, outcome |-> outcome, between |-> FALSE]
    /\ UNCHANGED <<data, call, outcome, steps, printed, shapefiles, geo>>

NextSeq == RainfallRequest \/ MainRequest \/ Remember

SpecSeq == InitSeq /\ [][NextSeq]_vars

----------------------------------------------------------------------------
\* Uploads of boundary companion files, each followed by a load.

InitGeo ==
    /\ data = MkField({"TIME"}, "TIME", {"RAINFALL"}, Dates, RampVals)
    /\ call = NoCall
    /\ outcome = NoOutcome
    /\ steps = NoSteps
    /\ printed = <<>>
    /\ first = NoFirst
    /\ shapefiles = <<>>
    /\ geo = NoGeo

\* The file uploader gains one more file.
Upload ==
    /\ Len(shapefiles) < MaxFiles
    /\ \E ext \in Extensions : shapefiles' = Append(shapefiles, ext)
    /\ geo' = NoGeo
    /\ UNCHANGED <<data, call, outcome, steps, printed, first>>

\* load_geospatial_data on the files uploaded so far.
LoadGeo ==
    /\ geo = NoGeo
    /\ geo' = LoadGeospatialData(shapefiles)
    /\ UNCHANGED <<data, call, outcome, steps, printed, first, shapefiles>>

NextGeo == Upload \/ LoadGeo

SpecGeo == InitGeo /\ [][NextGeo]_vars

----------------------------------------------------------------------------
\* What the claims speak of

Recognised == {"time", "TIME"}

Called == call.fn # "none"

\* The first recognised spelling present, in the fixed order time, TIME.
FirstPresent(coords) ==
    IF "time" \in coords THEN "time"
    ELSE IF "TIME" \in coords THEN "TIME" ELSE "none"

\* The variable name the called function asks for.
FnVar == IF call.fn = "main" THEN "rainfall" ELSE "RAINFALL"

\* The steps of the variable's own axis that the request's window covers.
TimeAxis == data.index[data.vdim]
WindowSteps == {i \in DOMAIN TimeAxis : call.start <= TimeAxis[i] /\ TimeAxis[i] <= call.end}

\* The request went through on the variable's own axis: the axis was
\* resolved to it, sliced along it, the variable is there and the mode is one
\* of the two.
Aligned ==
    /\ Called
    /\ steps.resolved = data.vdim
    /\ steps.sliced = data.vdim
    /\ FnVar \in data.vars
    /\ call.calc \in Modes
    /\ call.start <= call.end

PresentIn(c) == {i \in WindowSteps : data.vals[i][c] # NaN}

\* The reductions as the specification words them.
SpecCumulative(c) ==
    IF PresentIn(c) = {} THEN NaN
    ELSE Num(SumOver(Column(data, c), PresentIn(c)))

SpecAverage(c) ==
    IF PresentIn(c) = {} THEN NaN
    ELSE Ratio(SumOver(Column(data, c), PresentIn(c)), Cardinality(PresentIn(c)))

\* C1: whenever the field has a recognised time-axis spelling, the axis is
\* resolved to the first spelling present, and the slice and the reduction
\* are both asked along that resolved axis.
C1_SliceAndReduceAlongResolvedAxis ==
    (Called /\ data.coords \cap Recognised # {}) =>
        /\ steps.resolved = FirstPresent(data.coords)
        /\ steps.sliced = steps.resolved
        /\ steps.reduced \in {steps.resolved, "none"}

\* C2: a window that covers no step of the time axis makes the request fail
\* with EmptySliceError; no field is returned.
C2_EmptySliceFails ==
    (Aligned /\ WindowSteps = {}) =>
        /\ outcome.kind = "error"
        /\ outcome.error = "EmptySlice"

\* C3: on a non-empty slice, per cell, Cumulative is the sum of the present
\* values, Average their sum over their number, and a cell missing at every
\* step of the slice is missing in the result, in both modes.
C3_MissingAwareReduction ==
    (Aligned /\ WindowSteps # {}) =>
        /\ outcome.kind = "field"
        /\ \A c \in Cells :
             outcome.cells[c] = IF call.calc = "Cumulative"
                                THEN SpecCumulative(c) ELSE SpecAverage(c)

\* C4: a window of one date that is on the axis gives back the field at that
\* step, cell for cell, in both modes; a cell missing there stays missing.
C4_SingletonWindowIdentity ==
    (Aligned /\ call.start = call.end /\ WindowSteps # {}) =>
        /\ outcome.kind = "field"
        /\ \A c \in Cells : \A i \in WindowSteps :
             outcome.cells[c] = data.vals[i][c]

\* C5: with no recognised time-axis spelling among the axis names the request
\* fails with CoordinateNotFoundError before any slice or reduction, and the
\* error's detail is the full set of axis names of the field.
C5_CoordinateNotFoundReportsAxes ==
    (Called /\ data.coords \cap Recognised = {}) =>
        /\ outcome.kind = "error"
        /\ outcome.error = "CoordinateNotFound"
        /\ steps.sliced = "none"
        /\ steps.reduced = "none"
        /\ outcome.detail = data.coords

\* C6: with both spellings present the axis resolved is always the same one,
\* and a call that returns a field leaves a diagnostic of the ambiguity.
C6_AmbiguityIsReported ==
    (Called /\ Recognised \subseteq data.coords /\ outcome.kind = "field") =>
        /\ steps.resolved = "time"
        /\ printed # <<>>

\* The error of the check that fails first on a request whose variable is
\* absent, in the order the called function makes its checks.
FirstErrorVariableAbsent ==
    IF call.fn = "main"
    THEN IF "time" \notin data.coords THEN "CoordinateNotFound"
         ELSE "VariableNotFound"
    ELSE IF data.coords \cap Recognised = {} THEN "CoordinateNotFound"
         ELSE IF "TIME" \notin data.coords THEN "InvalidDimension"
         ELSE IF call.calc \notin Modes THEN "UnsupportedMode"
         ELSE "VariableNotFound"

\* C7 (as amended): a request for a variable the field does not hold under
\* exactly that name fails and returns no field, whatever the window and the
\* mode; the error is VariableNotFound when the checks made before the lookup
\* pass, and otherwise the error of the first of them that fails.
C7_AbsentVariableFails ==
    (Called /\ FnVar \notin data.vars) =>
        /\ outcome.kind = "error"
        /\ outcome.cells = <<>>
        /\ outcome.error = FirstErrorVariableAbsent

\* C7 witness: a field holding RAINFALL only, asked for rainfall, and the
\* request failed with VariableNotFound.
C7_Witness ==
    /\ call.fn = "main"
    /\ data.vars = {"RAINFALL"}
    /\ outcome.kind = "error"
    /\ outcome.error = "VariableNotFound"

\* C7 as first stated: an absent variable always gives VariableNotFoundError.
C7_AlwaysVariableNotFound ==
    (Called /\ FnVar \notin data.vars) =>
        /\ outcome.kind = "error"
        /\ outcome.error = "VariableNotFound"

\* Exactly one of a complete field and an error.
FieldOrError ==
    \/ /\ outcome.kind = "field"
       /\ outcome.error = "none"
       /\ outcome.exc = "none"
       /\ DOMAIN outcome.cells = Cells
       /\ \A c \in Cells : outcome.cells[c] = NaN \/ Len(outcome.cells[c]) = 2
    \/ /\ outcome.kind = "error"
       /\ outcome.error # "none"
       /\ outcome.exc # "none"
       /\ outcome.cells = <<>>

\* C8 (as amended): a request with a mode outside {Cumulative, Average} fails
\* and returns no field; the error is UnsupportedMode when the time-axis
\* check and the slice pass (the field has a TIME axis), and otherwise the
\* error of the check that fails first.  Every request ends in exactly one of
\* a complete field and an error.
C8_UnsupportedModeFails ==
    Called =>
        /\ FieldOrError
        /\ call.calc \notin Modes =>
             /\ outcome.kind = "error"
             /\ outcome.error =
                  IF data.coords \cap Recognised = {} THEN "CoordinateNotFound"
                  ELSE IF "TIME" \notin data.coords THEN "InvalidDimension"
                  ELSE "UnsupportedMode"

\* C8 witness: a request with an unknown mode failed with UnsupportedMode.
C8_Witness ==
    /\ Called
    /\ call.calc \notin Modes
    /\ outcome.kind = "error"
    /\ outcome.error = "UnsupportedMode"

\* C8 as first stated: an unknown mode always gives UnsupportedModeError.
C8_AlwaysUnsupportedMode ==
    Called =>
        /\ FieldOrError
        /\ call.calc \notin Modes =>
             (outcome.kind = "error" /\ outcome.error = "UnsupportedMode")

\* C9: no request changes the field it was given, and a request equal to one
\* made earlier on that field has the outcome the earlier one had, whatever
\* ran in between.
C9_RequestsArePure ==
    /\ [][data' = data]_vars
    /\ [](first.call # NoCall /\ call = first.call => outcome = first.outcome)

\* C9 witness: a kept request was made again after a different request had
\* run, on a field it returned an aggregate of.
C9_Witness ==
    /\ first.call # NoCall
    /\ first.between
    /\ call = first.call
    /\ first.outcome.kind = "field"
    /\ outcome.kind = "field"

\* C10: the file read as the shapefile is the .shp component, and an upload
\* with no .shp component is refused.
C10_OnlyShpIsRead ==
    geo.kind # "none" =>
        /\ geo.kind = "read" => geo.path = "shp"
        /\ (\A i \in DOMAIN shapefiles : shapefiles[i] # "shp") => geo.kind = "error"

====
